---- MODULE Spec2Model ----
(***************************************************************************)
(* Model of envirust's src/app.rs: the App run loop (draw, read one event, *)
(* dispatch it), the key table of on_key_event, the five selection         *)
(* operations and the frame render (layout, list pane, detail pane).       *)
(*                                                                         *)
(* App::select_* and App::render_list are one-line delegations to          *)
(* ratatui's ListState and List widget.  Their bodies are written here as  *)
(* the library executes them at those call sites:                          *)
(*   ListState::select_next      selected.map_or(0, |i| i.saturating_add(1))*)
(*   ListState::select_previous  selected.map_or(usize::MAX,               *)
(*                                               |i| i.saturating_sub(1))  *)
(*   ListState::select_first     Some(0)                                   *)
(*   ListState::select_last      Some(usize::MAX)                          *)
(*   List::render                returns early when the block's inner area *)
(*                               is empty; else select(None) when there    *)
(*                               are no items; else an index >= len is set *)
(*                               to len - 1; then the scroll offset is set *)
(*                               so that the selected row is in view.      *)
(*   ListState::select           stores the index; None resets the offset. *)
(***************************************************************************)
EXTENDS Integers, Sequences, FiniteSets, TLC

VARIABLES
    is_running,   \* App.is_running
    items,        \* App.env_list.items : sequence of [key, value]
    selected,     \* App.env_list.state.selected : None or Some(i)
    offset,       \* App.env_list.state.offset : index of the first row in view
    pc,           \* position of App::run: "loop", "draw", "read", "done", "err", "panic"
    term,         \* size of the terminal, what frame.area() returns
    last_event,   \* the event the last event::read() returned
    before,       \* selection at the moment last_event was read
    frame         \* what the last completed frame shows

vars == <<is_running, items, selected, offset, pc, term, last_event, before, frame>>

----------------------------------------------------------------------------
(* Bounds of the model *)

MaxLen == 3        \* longest snapshot
MaxHeight == 7     \* tallest terminal
MaxWidth == 3      \* widest terminal

(* usize::MAX, scaled to 32-bit signed integers; every snapshot length of  *)
(* the model is far below it.                                              *)
USIZE_MAX == 2147483647

----------------------------------------------------------------------------
(* Option<usize> *)

None == <<>>
Some(i) == <<i>>
IsSome(o) == o # <<>>
Unwrap(o) == o[1]

saturating_add(i, d) == IF i > USIZE_MAX - d THEN USIZE_MAX ELSE i + d
saturating_sub(i, d) == IF i < d THEN 0 ELSE i - d

Max(a, b) == IF a > b THEN a ELSE b
Min(a, b) == IF a < b THEN a ELSE b

----------------------------------------------------------------------------
(* The environment snapshot: get_variables() pushes one Environment per   *)
(* (key, value) pair of env::vars(), in the order the source yields them.  *)

EnvVar(i) ==
    IF i = 1 THEN [key |-> "PATH", value |-> "/usr/bin"]
    ELSE IF i = 2 THEN [key |-> "HOME", value |-> "/root"]
    ELSE [key |-> "KEY" \o ToString(i), value |-> "VALUE" \o ToString(i)]

get_variables(n) == [i \in 1..n |-> EnvVar(i)]

----------------------------------------------------------------------------
(* Selection operations (0-based indices, as in the code) *)

select_none_keeps(sel) == sel

select_none(sel) == None

select_next(sel) ==
    Some(IF IsSome(sel) THEN saturating_add(Unwrap(sel), 1) ELSE 0)

select_previous_wrapping(sel) ==
    Some(IF IsSome(sel) /\ Unwrap(sel) > 0 THEN Unwrap(sel) - 1 ELSE USIZE_MAX)

select_previous_first(sel) ==
    Some(IF IsSome(sel) THEN saturating_sub(Unwrap(sel), 1) ELSE 0)

select_previous(sel) ==
    Some(IF IsSome(sel) THEN saturating_sub(Unwrap(sel), 1) ELSE USIZE_MAX)

select_first(sel) == Some(0)

select_last(sel) == Some(USIZE_MAX)

----------------------------------------------------------------------------
(* Events *)

KeyCodes == {"Esc", "q", "c", "h", "l", "k", "j", "g", "G", "x",
             "Left", "Right", "Up", "Down", "PageUp", "PageDown"}
Modifiers == {{}, {"CONTROL"}, {"SHIFT"}, {"CONTROL", "SHIFT"}}

(* Terminal sizes: no column, one column (the list pane has room, the      *)
(* padded detail pane has none) or MaxWidth columns; every height.         *)
Areas == [width : {0, 1, MaxWidth}, height : 0..MaxHeight]

(* Key presses under every modifier set; releases and repeats, which the  *)
(* loop drops on their kind alone, of a quit key, of control-'c', of two   *)
(* navigation keys and of an unbound key.                                  *)
KeyEvents ==
    [type : {"Key"}, kind : {"Press"}, modifiers : Modifiers, code : KeyCodes]
    \cup [type : {"Key"}, kind : {"Release", "Repeat"},
          modifiers : {{}, {"CONTROL"}}, code : {"q", "c", "j", "G", "x"}]
ResizeEvents == [type : {"Resize"}, area : Areas]
OtherEvents == [type : {"Mouse", "FocusGained"}]
Events == KeyEvents \cup ResizeEvents \cup OtherEvents

NoEvent == [type |-> "NoEvent"]

(* event::read() returned Err *)
ReadError == [type |-> "Error"]

quit_ignored(app) == app

quit(app) == [app EXCEPT !.is_running = FALSE]

(* ListState::select as the select_* methods call it *)
WithSelected(app, sel) ==
    [app EXCEPT !.selected = sel, !.offset = IF sel = None THEN 0 ELSE @]

on_key_event_page_keys_swapped(app, key) ==
    IF key.code = "Esc" THEN quit(app)
    ELSE IF key.code = "q" THEN quit(app)
    ELSE IF key.modifiers = {"CONTROL"} /\ key.code = "c" THEN quit(app)
    ELSE IF key.code \in {"h", "Left"} THEN WithSelected(app, select_none(app.selected))
    ELSE IF key.code \in {"l", "Right"} THEN WithSelected(app, select_none(app.selected))
    ELSE IF key.code \in {"k", "Up"} THEN WithSelected(app, select_previous(app.selected))
    ELSE IF key.code \in {"j", "Down"} THEN WithSelected(app, select_next(app.selected))
    ELSE IF key.code \in {"g", "PageDown"} THEN WithSelected(app, select_first(app.selected))
    ELSE IF key.code \in {"G", "PageUp"} THEN WithSelected(app, select_last(app.selected))
    ELSE app

on_key_event_plain_c_quits(app, key) ==
    IF key.code = "Esc" THEN quit(app)
    ELSE IF key.code = "q" THEN quit(app)
    ELSE IF key.code = "c" THEN quit(app)
    ELSE IF key.code \in {"h", "Left"} THEN WithSelected(app, select_none(app.selected))
    ELSE IF key.code \in {"l", "Right"} THEN WithSelected(app, select_none(app.selected))
    ELSE IF key.code \in {"k", "Up"} THEN WithSelected(app, select_previous(app.selected))
    ELSE IF key.code \in {"j", "Down"} THEN WithSelected(app, select_next(app.selected))
    ELSE IF key.code \in {"g", "PageUp"} THEN WithSelected(app, select_first(app.selected))
    ELSE IF key.code \in {"G", "PageDown"} THEN WithSelected(app, select_last(app.selected))
    ELSE app

on_key_event_control_contained(app, key) ==
    IF key.code = "Esc" THEN quit(app)
    ELSE IF key.code = "q" THEN quit(app)
    ELSE IF "CONTROL" \in key.modifiers /\ key.code = "c" THEN quit(app)
    ELSE IF key.code \in {"h", "Left"} THEN WithSelected(app, select_none(app.selected))
    ELSE IF key.code \in {"l", "Right"} THEN WithSelected(app, select_none(app.selected))
    ELSE IF key.code \in {"k", "Up"} THEN WithSelected(app, select_previous(app.selected))
    ELSE IF key.code \in {"j", "Down"} THEN WithSelected(app, select_next(app.selected))
    ELSE IF key.code \in {"g", "PageUp"} THEN WithSelected(app, select_first(app.selected))
    ELSE IF key.code \in {"G", "PageDown"} THEN WithSelected(app, select_last(app.selected))
    ELSE app

(* The match of on_key_event, arms in source order; app is                 *)
(* [is_running, selected, offset].                                         *)
on_key_event(app, key) ==
    IF key.code = "Esc" THEN quit(app)
    ELSE IF key.code = "q" THEN quit(app)
    ELSE IF key.modifiers = {"CONTROL"} /\ key.code = "c" THEN quit(app)
    ELSE IF key.code \in {"h", "Left"} THEN WithSelected(app, select_none(app.selected))
    ELSE IF key.code \in {"l", "Right"} THEN WithSelected(app, select_none(app.selected))
    ELSE IF key.code \in {"k", "Up"} THEN WithSelected(app, select_previous(app.selected))
    ELSE IF key.code \in {"j", "Down"} THEN WithSelected(app, select_next(app.selected))
    ELSE IF key.code \in {"g", "PageUp"} THEN WithSelected(app, select_first(app.selected))
    ELSE IF key.code \in {"G", "PageDown"} THEN WithSelected(app, select_last(app.selected))
    ELSE app

dispatch_any_kind(app, ev) ==
    IF ev.type = "Key" THEN on_key_event(app, ev)
    ELSE app

(* The match of handle_crossterm_events on the event read *)
dispatch(app, ev) ==
    IF ev.type = "Key" /\ ev.kind = "Press" THEN on_key_event(app, ev)
    ELSE app

----------------------------------------------------------------------------
(* Rendering *)

Layouts_halves_rounded_down(area) ==
    LET h == area.height IN
    IF h >= 3
    THEN {[header |-> 2, list |-> (h - 3) \div 2,
           detail |-> (h - 3) \div 2, footer |-> 1]}
    ELSE {[header |-> hd, list |-> 0, detail |-> 0, footer |-> h - hd] :
              hd \in {x \in 0..2 : x <= h /\ h - x <= 1}}

(* Layout::vertical([Length(2), Fill(1), Length(1)]) then                  *)
(* Layout::vertical([Fill(1), Fill(1)]) on the middle band: the set of     *)
(* row counts [header, list, detail, footer] the solver can give.  With    *)
(* fewer than 3 rows the two Length constraints, of equal strength, cannot *)
(* both be met and the Fill band, the weakest, gets nothing.               *)
Layouts(area) ==
    LET h == area.height IN
    IF h >= 3
    THEN {[header |-> 2, list |-> (h - 3 + 1) \div 2,
           detail |-> (h - 3) \div 2, footer |-> 1]}
    ELSE {[header |-> hd, list |-> 0, detail |-> 0, footer |-> h - hd] :
              hd \in {x \in 0..2 : x <= h /\ h - x <= 1}}

(* The Rects .areas(area) returns for a layout of the area (x is the      *)
(* area's in all four): the bands follow each other from the top row.      *)
Regions(area, lay) ==
    [header |-> [y |-> 0, height |-> lay.header, width |-> area.width],
     list   |-> [y |-> lay.header, height |-> lay.list, width |-> area.width],
     detail |-> [y |-> lay.header + lay.list, height |-> lay.detail,
                 width |-> area.width],
     footer |-> [y |-> lay.header + lay.list + lay.detail,
                 height |-> lay.footer, width |-> area.width]]

(* Block::inner of a block with Borders::TOP: one row less, same width;    *)
(* Rect::is_empty of the result.                                           *)
ListInnerIsEmpty(width, rows) == width = 0 \/ saturating_sub(rows, 1) = 0

render_list_strict_compare(sel, n, width, rows) ==
    IF ListInnerIsEmpty(width, rows) THEN sel
    ELSE IF n = 0 THEN None
    ELSE IF IsSome(sel) /\ Unwrap(sel) > n THEN Some(saturating_sub(n, 1))
    ELSE sel

render_list_off_by_one(sel, n, width, rows) ==
    IF ListInnerIsEmpty(width, rows) THEN sel
    ELSE IF n = 0 THEN None
    ELSE IF IsSome(sel) /\ Unwrap(sel) >= n THEN Some(n)
    ELSE sel

(* List::render's effect on ListState.selected *)
render_list(sel, n, width, rows) ==
    IF ListInnerIsEmpty(width, rows) THEN sel
    ELSE IF n = 0 THEN None
    ELSE IF IsSome(sel) /\ Unwrap(sel) >= n THEN Some(saturating_sub(n, 1))
    ELSE sel

(* List::get_items_bounds for rows of height 1 and no scroll padding: the  *)
(* rows <<first, last>> (last excluded) in view in a pane of h rows, moved *)
(* from the stored offset as far as needed to hold the selected row.       *)
get_items_bounds(sel, off, n, h) ==
    LET first == Min(off, saturating_sub(n, 1))
        last == first + Min(h, n - first)
        index_to_display == IF IsSome(sel) THEN Unwrap(sel) ELSE first
    IN  IF index_to_display >= last
        THEN <<Max(first, index_to_display + 1 - h), index_to_display + 1>>
        ELSE IF index_to_display < first
        THEN <<index_to_display, Min(last, index_to_display + h)>>
        ELSE <<first, last>>

(* List::render's effect on ListState.offset; sel is the selection after   *)
(* render_list.                                                            *)
render_list_offset(sel, off, n, width, rows) ==
    IF ListInnerIsEmpty(width, rows) THEN off
    ELSE IF n = 0 THEN 0
    ELSE get_items_bounds(sel, off, n, rows - 1)[1]

(* The row List::render draws with the highlight style and symbol *)
highlighted_row(sel, off, n, width, rows) ==
    IF ListInnerIsEmpty(width, rows) \/ n = 0 \/ sel = None THEN None
    ELSE LET b == get_items_bounds(sel, off, n, rows - 1) IN
         IF b[1] <= Unwrap(sel) /\ Unwrap(sel) < b[2] THEN sel ELSE None

(* Block::inner of the detail block, Borders::TOP and                      *)
(* Padding::horizontal(1): one row and two columns less; Rect::is_empty.   *)
DetailInnerIsEmpty(width, rows) ==
    saturating_sub(width, 2) = 0 \/ saturating_sub(rows, 1) = 0

(* The index render_selected_item reads is out of the Vec's bounds *)
IndexPanics(sel, n) == IsSome(sel) /\ Unwrap(sel) >= n

render_selected_item_shows_key(sel, its) ==
    IF IsSome(sel) THEN its[Unwrap(sel) + 1].key ELSE "Nothing selected"

(* The text of the detail pane (items is 1-based in the model) *)
render_selected_item(sel, its) ==
    IF IsSome(sel) THEN its[Unwrap(sel) + 1].value ELSE "Nothing selected"

NoFrame == [drawn |-> FALSE]

----------------------------------------------------------------------------
(* The state machine *)

Init_stopped ==
    /\ is_running = FALSE
    /\ \E n \in 0..MaxLen : items = get_variables(n)
    /\ selected = None
    /\ offset = 0
    /\ pc = "loop"
    /\ term \in Areas
    /\ last_event = NoEvent
    /\ before = None
    /\ frame = NoFrame

Init ==
    /\ is_running = TRUE
    /\ \E n \in 0..MaxLen : items = get_variables(n)
    /\ selected = None
    /\ offset = 0
    /\ pc = "loop"
    /\ term \in Areas
    /\ last_event = NoEvent
    /\ before = None
    /\ frame = NoFrame

LoopCheck_skips_draw ==
    /\ pc = "loop"
    /\ pc' = IF is_running THEN "read" ELSE "done"
    /\ UNCHANGED <<is_running, items, selected, offset, term, last_event, before, frame>>

(* while self.is_running { ... } Ok(()) *)
LoopCheck ==
    /\ pc = "loop"
    /\ pc' = IF is_running THEN "draw" ELSE "done"
    /\ UNCHANGED <<is_running, items, selected, offset, term, last_event, before, frame>>

(* terminal.draw(|frame| frame.render_widget(&mut *self, frame.area()))?   *)
(* render: layout, header, footer, render_list, render_selected_item.      *)
Draw ==
    /\ pc = "draw"
    /\ \E lay \in Layouts(term) :
         LET sel == render_list(selected, Len(items), term.width, lay.list) IN
         /\ selected' = sel
         /\ offset' = render_list_offset(sel, offset, Len(items), term.width, lay.list)
         /\ IF IndexPanics(sel, Len(items))
            THEN /\ pc' = "panic"
                 /\ frame' = frame
            ELSE /\ pc' = "read"
                 /\ frame' = [drawn |-> TRUE, area |-> term, layout |-> lay,
                              detail |-> render_selected_item(sel, items),
                              detail_shown |->
                                  ~DetailInnerIsEmpty(term.width, lay.detail),
                              highlighted |->
                                  highlighted_row(sel, offset, Len(items),
                                                  term.width, lay.list)]
    /\ UNCHANGED <<is_running, items, term, last_event, before>>

(* terminal.draw fails and the ? returns the error: either before the     *)
(* render callback ran (the resize to the terminal's size), or after it    *)
(* returned (the flush of the frame).                                      *)
DrawFail ==
    /\ pc = "draw"
    /\ pc' = "err"
    /\ \/ UNCHANGED <<selected, offset>>
       \/ \E lay \in Layouts(term) :
            LET sel == render_list(selected, Len(items), term.width, lay.list) IN
            /\ ~IndexPanics(sel, Len(items))
            /\ selected' = sel
            /\ offset' = render_list_offset(sel, offset, Len(items),
                                            term.width, lay.list)
    /\ UNCHANGED <<is_running, items, term, last_event, before, frame>>

(* self.handle_crossterm_events()? with event::read() returning ev *)
HandleEvents ==
    /\ pc = "read"
    /\ \E ev \in Events :
         LET app == dispatch([is_running |-> is_running, selected |-> selected,
                              offset |-> offset], ev) IN
         /\ is_running' = app.is_running
         /\ selected' = app.selected
         /\ offset' = app.offset
         /\ last_event' = ev
         /\ term' = IF ev.type = "Resize" THEN ev.area ELSE term
    /\ before' = selected
    /\ pc' = "loop"
    /\ UNCHANGED <<items, frame>>

ReadFail_swallowed ==
    /\ pc = "read"
    /\ pc' = "loop"
    /\ last_event' = ReadError
    /\ UNCHANGED <<is_running, items, selected, offset, term, before, frame>>

(* event::read() fails: the ? returns the error *)
ReadFail ==
    /\ pc = "read"
    /\ pc' = "err"
    /\ last_event' = ReadError
    /\ UNCHANGED <<is_running, items, selected, offset, term, before, frame>>

Next == LoopCheck \/ Draw \/ DrawFail \/ HandleEvents \/ ReadFail

Spec == Init /\ [][Next]_vars

(* The run loop is sequential code: a step that can be taken is taken. *)
FairSpec == Spec /\ WF_vars(LoopCheck)

----------------------------------------------------------------------------
(* Vocabulary of the properties *)

len == Len(items)

ClearCodes == {"h", "l", "Left", "Right"}
PreviousCodes == {"k", "Up"}
NextCodes == {"j", "Down"}
FirstCodes == {"g", "PageUp"}
LastCodes == {"G", "PageDown"}

IsPress(ev, codes) == ev.type = "Key" /\ ev.kind = "Press" /\ ev.code \in codes

IsQuitPress(ev) ==
    /\ ev.type = "Key" /\ ev.kind = "Press"
    /\ \/ ev.code \in {"Esc", "q"}
       \/ ev.code = "c" /\ ev.modifiers = {"CONTROL"}

(* The handler has just returned from the press of one of codes *)
Handled(codes) == pc = "loop" /\ IsPress(last_event, codes)

InRange(sel) == sel = None \/ Unwrap(sel) < len

NavigationCodes ==
    ClearCodes \cup PreviousCodes \cup NextCodes \cup FirstCodes \cup LastCodes

IsKeyPress(ev) == ev.type = "Key" /\ ev.kind = "Press"

(* An event that was read and is not a key press *)
IsIgnored(ev) ==
    \/ ev.type \in {"Mouse", "FocusGained", "Resize"}
    \/ ev.type = "Key" /\ ev.kind # "Press"

----------------------------------------------------------------------------
(* C1: after each selection operation, whatever the snapshot length,       *)
(* selected is None or an index i with 0 <= i < len.                       *)
C1_SelectedNoneOrValidIndex == InRange(selected)

(* C2: rendering is total: no frame render faults, the index that          *)
(* render_selected_item reads is always below len.                         *)
C2_RenderNeverFaults == pc # "panic"

C4_EmptySnapshotSelectsNothing == len = 0 => selected = None

(* C5: for len >= 1, next sets selected to 0 from None and to              *)
(* min(i + 1, len - 1) from index i, never exceeding len - 1.              *)
C5_NextSaturatesAtLast ==
    Handled(NextCodes) /\ len >= 1 =>
        selected = IF before = None THEN Some(0)
                   ELSE Some(Min(Unwrap(before) + 1, len - 1))

(* C6: for len >= 1 and selected = index i, previous sets selected to      *)
(* max(i - 1, 0): it steps down to 0 and stays there, never wrapping.      *)
C6_PreviousSaturatesAtFirst ==
    Handled(PreviousCodes) /\ len >= 1 /\ IsSome(before) =>
        selected = Some(Max(Unwrap(before) - 1, 0))

(* previous was pressed on index 0 of a snapshot of two or more entries    *)
(* and the selection stayed 0.                                             *)
C6_Witness ==
    /\ Handled(PreviousCodes) /\ len >= 2
    /\ before = Some(0) /\ selected = Some(0)

C8_FirstAndLast ==
    /\ Handled(FirstCodes) => selected = IF len >= 1 THEN Some(0) ELSE before
    /\ Handled(LastCodes) => selected = IF len >= 1 THEN Some(len - 1) ELSE before

(* C9: clear yields selected = None from any selection, and for len >= 1   *)
(* the next that follows a clear yields selected = 0, whatever was         *)
(* selected before the clear.                                              *)
C9_ClearThenNext ==
    /\ [](Handled(ClearCodes) => selected = None)
    /\ [][(/\ pc = "read" /\ IsPress(last_event, ClearCodes)
           /\ pc' = "loop" /\ IsPress(last_event', NextCodes)
           /\ len >= 1) => selected' = Some(0)]_vars

(* clear was pressed while an index was selected, and nothing is selected  *)
(* now.                                                                    *)
C9_Witness ==
    /\ Handled(ClearCodes) /\ IsSome(before) /\ selected = None

(* C10: while Running, a press of Escape, of 'q' or of control-'c' stops   *)
(* the loop from any selection and snapshot: the running flag is false     *)
(* when the handler returns, the only step run then takes is to return     *)
(* Ok(()), which it does, and nothing is read or drawn after it.           *)
C10_QuitKeysStopTheLoop ==
    /\ [](IsQuitPress(last_event) => ~is_running /\ pc \in {"loop", "done"})
    /\ [][IsQuitPress(last_event) =>
              pc' = "done" /\ UNCHANGED <<is_running, items, selected, last_event, frame>>]_vars
    /\ (Handled({"Esc", "q", "c"}) /\ IsQuitPress(last_event)) ~> (pc = "done")

(* down, down, 'q' on [PATH, HOME]: index 1 was selected when 'q' was      *)
(* read, and run has returned Ok(()).                                      *)
C10_Witness ==
    /\ items = get_variables(2) /\ pc = "done" /\ ~is_running
    /\ IsPress(last_event, {"q"}) /\ before = Some(1) /\ selected = Some(1)

(* C11: Running is the initial state and Stopped is terminal: the running  *)
(* flag starts true and the only change it ever undergoes is from true to  *)
(* false.                                                                  *)
C11_StoppedIsTerminal ==
    /\ is_running = TRUE
    /\ [][is_running' # is_running => is_running /\ ~is_running']_vars
    /\ [][~is_running => pc' = "done" /\ ~is_running']_vars

(* The loop has stopped and run has returned. *)
C11_Witness == ~is_running /\ pc = "done" /\ last_event # NoEvent

C13_OtherKeysAreNoOps ==
    /\ [](pc = "loop" /\ IsKeyPress(last_event) /\ ~IsQuitPress(last_event)
             /\ last_event.code \notin NavigationCodes
          => is_running /\ selected = before)
    /\ [][pc = "read" => items' = items]_vars

(* Plain 'c' was pressed while an entry was selected: nothing changed.     *)
C13_Witness ==
    /\ Handled({"c"}) /\ last_event.modifiers = {}
    /\ is_running /\ IsSome(before) /\ selected = before

(* C14: key events that are not presses and all non-key events change      *)
(* neither the running flag nor the selection nor the snapshot, whatever    *)
(* key code they carry, and the frame rendered after them leaves the       *)
(* selection as it was, so that interleaving them changes no result.       *)
C14_NonPressEventsIgnored ==
    /\ [](IsIgnored(last_event) =>
              is_running /\ selected = before /\ pc # "panic")
    /\ [][IsIgnored(last_event') => items' = items]_vars

(* The release of 'q' was read while an entry was selected, and a frame    *)
(* later the loop is still running on the same selection.                  *)
C14_Witness ==
    /\ pc = "read" /\ last_event.type = "Key" /\ last_event.kind = "Release"
    /\ last_event.code = "q" /\ is_running /\ IsSome(selected)
    /\ selected = before

(* C15: the loop alternates render and read while Running: it starts with  *)
(* a render, an event is read only right after a render of the state as it *)
(* then is, one event is read per iteration, and after an event that       *)
(* leaves the loop Running the next step is a render, not a read.          *)
C15_RenderReadAlternation ==
    /\ [](frame = NoFrame => last_event = NoEvent)
    /\ [](pc = "read" =>
              /\ frame # NoFrame
              /\ frame.area = term
              /\ frame.detail = render_selected_item(selected, items))
    /\ [][/\ pc' = "read" => pc = "draw"
          /\ last_event' # last_event => pc = "read" /\ pc' \in {"loop", "err"}
          /\ pc = "read" => pc' \in {"loop", "err"}
          /\ pc = "loop" => pc' = IF is_running THEN "draw" ELSE "done"]_vars

(* A frame showing the second entry was rendered after an event, and the   *)
(* loop waits for the next one.                                            *)
C15_Witness ==
    /\ pc = "read" /\ last_event # NoEvent /\ selected = Some(1)
    /\ frame.detail = items[2].value

(* C20: dispatch is first match on (modifiers, code): Escape and 'q' quit  *)
(* under every modifier set, 'c' quits if and only if the modifiers are    *)
(* exactly control, a key-press never both quits and changes the           *)
(* selection, and a navigation key-press never changes the running flag.   *)
C20_DispatchPrecedence ==
    /\ Handled({"Esc", "q"}) => ~is_running /\ selected = before
    /\ Handled({"c"}) =>
           /\ ~is_running <=> last_event.modifiers = {"CONTROL"}
           /\ selected = before
    /\ Handled(KeyCodes) => is_running \/ selected = before
    /\ Handled(NavigationCodes) => is_running

(* 'c' was pressed with control and shift: the loop still runs.            *)
C20_Witness ==
    /\ Handled({"c"}) /\ last_event.modifiers = {"CONTROL", "SHIFT"}
    /\ is_running /\ IsSome(selected)

(* C16: a terminal I/O failure propagates at once: run returns the error   *)
(* at the failing draw or read, nothing is read, dispatched or drawn       *)
(* after it, and a failed read leaves the selection, the running flag and  *)
(* the snapshot as they were before the read.                              *)
C16_IoFailurePropagates ==
    /\ [](last_event = ReadError => pc = "err")
    /\ [][pc # "err"]_vars
    /\ [][pc' = "err" => pc \in {"draw", "read"} /\ UNCHANGED <<is_running, items>>]_vars
    /\ [][pc = "read" /\ pc' = "err" =>
              last_event' = ReadError /\ UNCHANGED <<selected, is_running, items>>]_vars

(* A read failed while an entry was selected: run has returned the error   *)
(* with the selection and the flag as they were.                           *)
C16_Witness ==
    /\ pc = "err" /\ last_event = ReadError
    /\ is_running /\ IsSome(selected) /\ frame # NoFrame
    /\ frame.detail = render_selected_item(selected, items)

(* C17: in every rendered frame the detail pane holds the value of the     *)
(* entry at the selected index, and the placeholder "Nothing selected"     *)
(* exactly when nothing is selected, in which case no list row is          *)
(* highlighted; a highlighted row is the row of the entry whose value the  *)
(* detail pane holds, and whenever the detail pane has room to show a      *)
(* value that row is highlighted.                                          *)
C17_DetailShowsSelectedValue ==
    pc = "read" =>
        /\ IsSome(selected) => frame.detail = items[Unwrap(selected) + 1].value
        /\ frame.detail = "Nothing selected" <=> selected = None
        /\ selected = None => frame.highlighted = None
        /\ IsSome(frame.highlighted) =>
               frame.detail = items[Unwrap(frame.highlighted) + 1].value
        /\ frame.detail_shown /\ IsSome(selected) => frame.highlighted = selected

(* A frame with room in both panes shows HOME highlighted and its value.   *)
C17_Witness ==
    /\ pc = "read" /\ frame.detail_shown
    /\ selected = Some(1) /\ frame.highlighted = Some(1)
    /\ items[2].key = "HOME" /\ frame.detail = "/root"

(* The layout contract for a layout lay of an area *)
LayoutOk(area, lay) ==
    LET r == Regions(area, lay)
        h == area.height IN
    /\ \A b \in {"header", "list", "detail", "footer"} :
           r[b].width = area.width /\ r[b].height >= 0 /\ r[b].y >= 0
    /\ r.header.y + r.header.height <= r.list.y
    /\ r.list.y + r.list.height <= r.detail.y
    /\ r.detail.y + r.detail.height <= r.footer.y
    /\ r.footer.y + r.footer.height <= h
    /\ lay.header + lay.list + lay.detail + lay.footer <= h
    /\ h >= 3 =>
           /\ lay.header = 2 /\ lay.footer = 1
           /\ lay.list + lay.detail = h - 3
           /\ lay.list - lay.detail \in {-1, 0, 1}

(* C18: every area of height h >= 0 and width w is laid out as header,     *)
(* list, detail and footer from top to bottom, each of width w and of      *)
(* non-negative height, not overlapping, of total height at most h; for    *)
(* h >= 3 the header has 2 rows, the footer 1, list and detail together    *)
(* h - 3 and they differ by at most 1 (10 x 40: 2, 1, 7 split 3 and 4).    *)
C18_LayoutBands ==
    /\ frame # NoFrame => LayoutOk(frame.area, frame.layout)
    /\ \A lay \in Layouts([width |-> 40, height |-> 10]) :
           /\ LayoutOk([width |-> 40, height |-> 10], lay)
           /\ lay.header = 2 /\ lay.footer = 1 /\ lay.list + lay.detail = 7
           /\ {lay.list, lay.detail} \subseteq {3, 4}

(* A frame of 6 rows: 2 header rows, 3 rows split 2 and 1, 1 footer row.   *)
C18_Witness ==
    /\ frame # NoFrame /\ frame.area = [width |-> MaxWidth, height |-> 6]
    /\ frame.layout = [header |-> 2, list |-> 2, detail |-> 1, footer |-> 1]

ListPaneHasRows(area) ==
    \A lay \in Layouts(area) : ~ListInnerIsEmpty(area.width, lay.list)

(* C19: whenever the loop waits for input after a frame whose list pane    *)
(* had a content row, the stored selection is None or an index below len,  *)
(* and None when the snapshot is empty; the render of such a frame never   *)
(* faults, because the list render brings the stored value into range      *)
(* before the detail pane reads it.                                        *)
C19_SelectionInRangeAtInputWait ==
    /\ [](pc = "read" /\ ListPaneHasRows(frame.area) =>
              InRange(selected) /\ (len = 0 => selected = None))
    /\ [][pc = "draw" /\ ListPaneHasRows(term) =>
              /\ pc' # "panic"
              /\ pc' = "read" => InRange(selected') /\ (len = 0 => selected' = None)]_vars

(* next was pressed on the last entry; the frame after it has that entry   *)
(* selected again.                                                         *)
C19_Witness ==
    /\ pc = "read" /\ ListPaneHasRows(frame.area)
    /\ IsPress(last_event, NextCodes) /\ len >= 2
    /\ before = Some(len - 1) /\ selected = Some(len - 1)

====
